---- MODULE Spec2Model ----
(***************************************************************************)
(* Zaika Junction order server (src/server.js): the in-memory order and    *)
(* menu stores, the order validator / sanitizer / estimator, the presence  *)
(* registry and the room-based Socket.IO broadcasts.                       *)
(*                                                                         *)
(* Conventions                                                             *)
(*  - a JS object is a TLA+ record; an absent (undefined) field is a field *)
(*    that is not in the record's DOMAIN;                                  *)
(*  - a JS array is a sequence; where an array is one of several kinds of  *)
(*    value (a request field, an event payload) it is wrapped as Arr(seq); *)
(*  - caller text that the server parses or rewrites is a sequence of      *)
(*    characters (one-character strings; the word "script" is one token);  *)
(*  - Date.now() and new Date().toISOString() are the integer clock `now`; *)
(*    a handler runs to completion within one clock value;                 *)
(*  - res is the HTTP response of the handler that ran last and emitted    *)
(*    the Socket.IO events it emitted, each with the set of connections    *)
(*    it was delivered to.                                                 *)
(***************************************************************************)
EXTENDS Integers, Sequences, FiniteSets, TLC

VARIABLES now, menuItems, orders, nextSocket, sockets, rooms, connectedUsers,
          res, emitted, est

vars == <<now, menuItems, orders, nextSocket, sockets, rooms, connectedUsers,
          res, emitted, est>>

----------------------------------------------------------------------------
(* Bounds of the model.                                                     *)

\* First clock value: Date.now() is far above the ids 1..5 of the sample menu.
Epoch == 10
\* The clock takes the values Epoch .. Epoch + MaxTicks.
MaxTicks == 1
\* Orders created in a run of the order-focused specification.
MaxOrders == 2
\* Connections opened in a run of the realtime-focused specification.
MaxSockets == 2
\* Menu items added by POST /api/menu in a run of the catalog specification.
MaxAdded == 1
\* Orders stored in a run of the order-intake specification.
MaxIntake == 1

----------------------------------------------------------------------------
(* JS object helpers.                                                       *)

Has(obj, f) == f \in DOMAIN obj

\* { ...a, ...b }
Spread(a, b) ==
    [f \in (DOMAIN a) \cup (DOMAIN b) |-> IF f \in DOMAIN b THEN b[f] ELSE a[f]]

\* An array that is passed around as a value (a request field, an event
\* payload), and a value that is not an array.
Arr(elems) == [array |-> TRUE, elems |-> elems]
NotArray == [array |-> FALSE]

\* Array.prototype.findIndex, given for each index whether the callback accepts
\* the element there: the first accepted index, 0 for -1.
FindIndex(hits) ==
    IF \E i \in DOMAIN hits : hits[i]
    THEN CHOOSE i \in DOMAIN hits :
            /\ hits[i]
            /\ \A j \in 1..(i - 1) : ~hits[j]
    ELSE 0

\* Array.prototype.splice(i, 1) on the array itself
RemoveAt(seq, i) == [k \in 1..(Len(seq) - 1) |-> IF k < i THEN seq[k] ELSE seq[k + 1]]

----------------------------------------------------------------------------
(* parseInt(req.params.id): leading blanks are skipped, an optional sign is *)
(* read, then the longest run of decimal digits; anything after it is       *)
(* ignored; no digit at all gives NaN.                                      *)

Digits == {"0", "1", "2", "3", "4", "5", "6", "7", "8", "9"}

DigitVal(c) ==
    CASE c = "0" -> 0 [] c = "1" -> 1 [] c = "2" -> 2 [] c = "3" -> 3
      [] c = "4" -> 4 [] c = "5" -> 5 [] c = "6" -> 6 [] c = "7" -> 7
      [] c = "8" -> 8 [] c = "9" -> 9

\* Length of the longest prefix of s whose elements are all in S.
PrefixLen(s, S) ==
    IF \E i \in 1..Len(s) : s[i] \notin S
    THEN (CHOOSE i \in 1..Len(s) : s[i] \notin S /\ \A j \in 1..(i - 1) : s[j] \in S) - 1
    ELSE Len(s)

RECURSIVE Decimal(_)
Decimal(ds) ==
    IF ds = <<>> THEN 0
    ELSE 10 * Decimal(SubSeq(ds, 1, Len(ds) - 1)) + DigitVal(ds[Len(ds)])

\* The result is [nan |-> TRUE] or [nan |-> FALSE, n |-> the integer].
parseInt(str) ==
    LET t    == SubSeq(str, PrefixLen(str, {" "}) + 1, Len(str))
        sgn  == t # <<>> /\ t[1] \in {"-", "+"}
        body == IF sgn THEN Tail(t) ELSE t
        k    == PrefixLen(body, Digits)
    IN  IF k = 0 THEN [nan |-> TRUE]
        ELSE [nan |-> FALSE,
              n   |-> (IF sgn /\ t[1] = "-" THEN -1 ELSE 1) * Decimal(SubSeq(body, 1, k))]

\* item.id === itemId, itemId the result of parseInt (NaN equals nothing).
IdIs(item, parsed) == ~parsed.nan /\ item.id = parsed.n

----------------------------------------------------------------------------
(* validateOrderData.  The body's items field is absent, or                 *)
(* [array |-> FALSE] (any value that is not an array, e.g. a string), or    *)
(* [array |-> TRUE, elems |-> <<line, ...>>]; a line is a record, or        *)
(* [null |-> TRUE] for a null element.  The result is [threw |-> TRUE]      *)
(* when the function throws a TypeError, else [threw |-> FALSE, errors].    *)

\* A request value that should be text but is not a string (an array, an
\* object) is a sequence that starts with the token NonString and goes on with
\* the characters it holds; it is truthy whatever it holds.
NonString == "[]"

\* typeof v === 'string'
IsString(v) == v = <<>> \/ v[1] # NonString

Msg(i, m) == [item |-> i, msg |-> m]

ItemErrors(item, index) ==
       (IF ~Has(item, "name") \/ item.name = <<>> \/ ~IsString(item.name)
        THEN <<Msg(index, "name is required")>> ELSE <<>>)
    \o (IF ~Has(item, "price") \/ item.price <= 0
        THEN <<Msg(index, "price must be a positive number")>> ELSE <<>>)
    \o (IF ~Has(item, "quantity") \/ item.quantity <= 0
        THEN <<Msg(index, "quantity must be a positive number")>> ELSE <<>>)

RECURSIVE AllItemErrors(_, _)
AllItemErrors(elems, index) ==
    IF index > Len(elems) THEN <<>>
    ELSE ItemErrors(elems[index], index) \o AllItemErrors(elems, index + 1)

validateOrderData(orderData) ==
    LET itemsErr ==
            IF ~Has(orderData, "items") \/ ~orderData.items.array
               \/ Len(orderData.items.elems) = 0
            THEN <<Msg(0, "Items are required and must be a non-empty array")>>
            ELSE <<>>
        totalErr ==
            IF ~Has(orderData, "total") \/ orderData.total <= 0
            THEN <<Msg(0, "Total must be a positive number")>>
            ELSE <<>>
        nameErr ==
            IF ~Has(orderData, "customerInfo")
               \/ ~Has(orderData.customerInfo, "name")
               \/ orderData.customerInfo.name = <<>>
            THEN <<Msg(0, "Customer name is required")>>
            ELSE <<>>
        \* orderData.items?.forEach(...): undefined skips it, a value without
        \* forEach makes the call throw, and so does reading .name of null
        throws ==
            /\ Has(orderData, "items")
            /\ \/ ~orderData.items.array
               \/ \E i \in 1..Len(orderData.items.elems) :
                      Has(orderData.items.elems[i], "null")
    IN  IF throws THEN [threw |-> TRUE]
        ELSE [threw  |-> FALSE,
              errors |-> itemsErr \o totalErr \o nameErr
                         \o (IF Has(orderData, "items")
                             THEN AllItemErrors(orderData.items.elems, 1)
                             ELSE <<>>)]

----------------------------------------------------------------------------
(* sanitizeString on a string given as a sequence of tokens: "<", ">", "/", *)
(* " ", the word "script", and other word characters.                       *)

WordTokens == {"script", "a", "H"}

\* <script\b at position i: "<", "script", then a token that is not a word character
OpensAt(s, i) ==
    /\ i + 2 <= Len(s)
    /\ s[i] = "<" /\ s[i + 1] = "script"
    /\ s[i + 2] \notin WordTokens

\* <\/script> at position j
ClosesAt(s, j) ==
    /\ j + 3 <= Len(s)
    /\ s[j] = "<" /\ s[j + 1] = "/" /\ s[j + 2] = "script" /\ s[j + 3] = ">"

\* .replace(/<script\b[^<]*(?:(?!<\/script>)<[^<]*)*<\/script>/gi, ''): every
\* block from an opening tag to the first closing tag after it, left to right
RECURSIVE StripScripts(_)
StripScripts(s) ==
    IF s = <<>> THEN <<>>
    ELSE IF OpensAt(s, 1) /\ \E j \in 3..Len(s) : ClosesAt(s, j)
         THEN LET c == CHOOSE j \in 3..Len(s) :
                          ClosesAt(s, j) /\ \A k \in 3..(j - 1) : ~ClosesAt(s, k)
              IN  StripScripts(SubSeq(s, c + 4, Len(s)))
         ELSE <<s[1]>> \o StripScripts(Tail(s))

IsAngle(c) == c \in {"<", ">"}
NotAngle(c) == ~IsAngle(c)

\* String.prototype.trim
Trim(s) ==
    LET lead == PrefixLen(s, {" "})
        rest == SubSeq(s, lead + 1, Len(s))
        back == PrefixLen([i \in 1..Len(rest) |-> rest[Len(rest) + 1 - i]], {" "})
    IN  SubSeq(rest, 1, Len(rest) - back)

sanitizeString(str) ==
    IF ~IsString(str) THEN str
    ELSE Trim(SelectSeq(StripScripts(str), NotAngle))

----------------------------------------------------------------------------
(* calculateEstimatedTime.  The argument is [undef |-> TRUE] for a missing  *)
(* list, or an items value as in validateOrderData.                         *)

baseTime == 15
DefaultEstimate == 30
FallbackPrepTime == 10
MinEstimate == 15
MaxEstimate == 60

Min(a, b) == IF a < b THEN a ELSE b
Max(a, b) == IF a > b THEN a ELSE b

\* Math.floor(n / 2)
CeilHalf_floor(n) == n \div 2

\* Math.ceil(n / 2) for an integer n
CeilHalf(n) == (n + 1) \div 2

\* (menuItem?.preparationTime || 10) for menuItem = menu.find(mi => mi.id === item.id)
PrepTimeOf(menu, item) ==
    LET LOCAL_Test(mi) == Has(item, "id") /\ mi.id = item.id
        idx == FindIndex([i \in 1..Len(menu) |-> LOCAL_Test(menu[i])])
    IN  IF idx # 0 /\ Has(menu[idx], "preparationTime") /\ menu[idx].preparationTime # 0
        THEN menu[idx].preparationTime
        ELSE FallbackPrepTime

RECURSIVE ItemTime(_, _)
ItemTime(menu, elems) ==
    IF elems = <<>> THEN 0
    ELSE ItemTime(menu, SubSeq(elems, 1, Len(elems) - 1))
         + PrepTimeOf(menu, elems[Len(elems)]) * elems[Len(elems)].quantity

calculateEstimatedTime(menu, items) ==
    IF Has(items, "undef") \/ ~items.array THEN DefaultEstimate
    ELSE Min(Max(baseTime + CeilHalf(ItemTime(menu, items.elems)), MinEstimate),
             MaxEstimate)

----------------------------------------------------------------------------
(* State after construction (initializeData has run, nobody is connected).  *)
(* Of a menu item the model keeps id, name, price, available and            *)
(* preparationTime; category, description, emoji, rating and the popular /  *)
(* premium flags are never read by the server.                              *)

SampleMenu ==
    << [id |-> 1, name |-> "Gulab Jamun", price |-> 120, available |-> TRUE,
        preparationTime |-> 15],
       [id |-> 2, name |-> "Rasgulla", price |-> 100, available |-> TRUE,
        preparationTime |-> 10],
       [id |-> 3, name |-> "Kaju Katli", price |-> 300, available |-> TRUE,
        preparationTime |-> 20],
       [id |-> 4, name |-> "Samosa", price |-> 25, available |-> TRUE,
        preparationTime |-> 8],
       [id |-> 5, name |-> "Bhel Puri", price |-> 40, available |-> TRUE,
        preparationTime |-> 5] >>

\* No HTTP response: the handler that ran last served a Socket.IO event.
NoRes == [op |-> "none", status |-> 0]

EmptyObj == [f \in {} |-> 0]
Null == [null |-> TRUE]
Undefined == [undef |-> TRUE]

Init ==
    /\ now = Epoch
    /\ menuItems = SampleMenu
    /\ orders = <<>>
    /\ nextSocket = 1
    /\ sockets = {}
    /\ rooms = EmptyObj
    /\ connectedUsers = EmptyObj
    /\ res = NoRes
    /\ emitted = <<>>
    /\ est = [called |-> FALSE]

----------------------------------------------------------------------------
(* Socket.IO delivery.                                                      *)

\* the event reaches nobody
Event_noRecipients(name, to, payload) == [event |-> name, to |-> {}, payload |-> payload]

\* the event is delivered to every connection, whatever the target
Event_toEveryone(name, to, payload) == [event |-> name, to |-> sockets, payload |-> payload]

Event(name, to, payload) == [event |-> name, to |-> to, payload |-> payload]

\* io.to(room): the connections that are members of the room
InRoom(rms, room) == {s \in DOMAIN rms : room \in rms[s]}

\* io.emit(...) where io.to(room).emit(...) was meant
ToRoom_everyone(rms, room) == DOMAIN rms

\* io.to(room).emit(...)
ToRoom(rms, room) == InRoom(rms, room)

validStatuses == {"pending", "preparing", "ready", "delivered", "cancelled"}

\* the two roles' rooms swapped
RoomName_swapped(userType) ==
    CASE userType = "customer"   -> "restaurant_room"
      [] userType = "restaurant" -> "customer_room"
      [] userType = "admin"      -> "admin_room"

\* `${userType}_room`
RoomName(userType) ==
    CASE userType = "customer"   -> "customer_room"
      [] userType = "restaurant" -> "restaurant_room"
      [] userType = "admin"      -> "admin_room"

\* total computed as customers + restaurants
ConnectionStats_sum(users, rms) ==
    [customers   |-> Cardinality({s \in DOMAIN users : users[s].userType = "customer"}),
     restaurants |-> Cardinality({s \in DOMAIN users : users[s].userType = "restaurant"}),
     total       |-> Cardinality({s \in DOMAIN users :
                                    users[s].userType \in {"customer", "restaurant"}}),
     rooms       |-> [customer_room   |-> Cardinality(InRoom(rms, "customer_room")),
                      restaurant_room |-> Cardinality(InRoom(rms, "restaurant_room"))]]

\* the connection statistics object built in joinRoom and in disconnect
ConnectionStats(users, rms) ==
    [customers   |-> Cardinality({s \in DOMAIN users : users[s].userType = "customer"}),
     restaurants |-> Cardinality({s \in DOMAIN users : users[s].userType = "restaurant"}),
     total       |-> Cardinality(DOMAIN users),
     rooms       |-> [customer_room   |-> Cardinality(InRoom(rms, "customer_room")),
                      restaurant_room |-> Cardinality(InRoom(rms, "restaurant_room"))]]

----------------------------------------------------------------------------
(* The clock.                                                               *)

Tick ==
    /\ now < Epoch + MaxTicks
    /\ now' = now + 1
    /\ UNCHANGED <<menuItems, orders, nextSocket, sockets, rooms, connectedUsers,
                   res, emitted, est>>

----------------------------------------------------------------------------
(* POST /api/orders                                                         *)

COD == <<"COD">>

\* `ORD${Date.now()}`
OrderId(t) == <<"ORD", t>>

SanitizedCustomerInfo(ci) ==
    Spread(ci,
      Spread([name |-> sanitizeString(ci.name)],
        Spread(IF Has(ci, "phone") THEN [phone |-> sanitizeString(ci.phone)]
               ELSE EmptyObj,
               [address |->
                  IF Has(ci, "address")
                  THEN Spread(ci.address,
                              IF Has(ci.address, "fullAddress")
                              THEN [fullAddress |->
                                      sanitizeString(ci.address.fullAddress)]
                              ELSE EmptyObj)
                  ELSE Null])))

\* orderNumber: orders.length || 1
NewOrder_lengthOrOne(body, t, menu, count) ==
    [id            |-> OrderId(t),
     items         |-> [i \in 1..Len(body.items.elems) |->
                          Spread(body.items.elems[i],
                                 [name |-> sanitizeString(body.items.elems[i].name)])],
     total         |-> body.total,
     customerInfo  |-> SanitizedCustomerInfo(body.customerInfo),
     paymentMethod |-> COD,
     deliveryCharge |-> 0,
     status        |-> "pending",
     createdAt     |-> t,
     estimatedTime |-> calculateEstimatedTime(menu, body.items),
     orderNumber   |-> Max(count, 1)]

NewOrder(body, t, menu, count) ==
    [id            |-> OrderId(t),
     items         |-> [i \in 1..Len(body.items.elems) |->
                          Spread(body.items.elems[i],
                                 [name |-> sanitizeString(body.items.elems[i].name)])],
     total         |-> body.total,
     customerInfo  |-> SanitizedCustomerInfo(body.customerInfo),
     paymentMethod |-> IF Has(body, "paymentMethod")
                          /\ sanitizeString(body.paymentMethod) # <<>>
                       THEN sanitizeString(body.paymentMethod) ELSE COD,
     deliveryCharge |-> IF Has(body, "deliveryCharge") THEN body.deliveryCharge ELSE 0,
     status        |-> "pending",
     createdAt     |-> t,
     estimatedTime |-> calculateEstimatedTime(menu, body.items),
     orderNumber   |-> count + 1]

\* orders.push(newOrder)
Unshift_push(arr, x) == Append(arr, x)

\* the new order is not put in the list
Unshift_none(arr, x) == arr

\* orders.unshift(newOrder)
Unshift(arr, x) == <<x>> \o arr

PostOrder(body) ==
    LET v == validateOrderData(body)
    IN  /\ IF v.threw
           THEN /\ res' = [op |-> "POST /api/orders", status |-> 500,
                           message |-> "Failed to create order"]
                /\ emitted' = <<>>
                /\ orders' = orders
           ELSE IF Len(v.errors) > 0
           THEN /\ res' = [op |-> "POST /api/orders", status |-> 400,
                           message |-> "Validation failed", errors |-> v.errors]
                /\ emitted' = <<>>
                /\ orders' = orders
           ELSE LET newOrder == NewOrder(body, now, menuItems, Len(orders))
                IN  /\ orders' = Unshift(orders, newOrder)
                    /\ emitted' =
                         << Event("newOrder", ToRoom(rooms, "restaurant_room"), newOrder),
                            Event("orderConfirmed", ToRoom(rooms, "customer_room"),
                                  [orderId       |-> newOrder.id,
                                   estimatedTime |-> newOrder.estimatedTime,
                                   orderNumber   |-> newOrder.orderNumber]),
                            Event("orderCreated", sockets,
                                  [orderId |-> newOrder.id, status |-> "created",
                                   timestamp |-> now,
                                   connectedUsers |-> Cardinality(DOMAIN connectedUsers)]) >>
                    /\ res' = [op |-> "POST /api/orders", status |-> 201,
                               message |-> "Order placed successfully",
                               data |-> newOrder]
        /\ UNCHANGED <<now, menuItems, nextSocket, sockets, rooms, connectedUsers, est>>

----------------------------------------------------------------------------
(* PUT /api/orders/:id/status                                               *)

\* the status check left out
StatusIsValid_any(status) == TRUE

\* validStatuses.includes(status)
StatusIsValid(status) == status \in validStatuses

\* only updatedAt is written
UpdatedOrder_noStatus(order, status, t) == Spread(order, [updatedAt |-> t])

\* a move back to an earlier stage of pending, preparing, ready, delivered is
\* left out
UpdatedOrder_forwardOnly(order, status, t) ==
    LET Stage(st) == CASE st = "pending" -> 0 [] st = "preparing" -> 1
                       [] st = "ready" -> 2 [] st = "delivered" -> 3
                       [] st = "cancelled" -> 4
    IN  IF Stage(status) < Stage(order.status) THEN Spread(order, [updatedAt |-> t])
        ELSE Spread(order, [status |-> status, updatedAt |-> t])

\* the total is written as well
UpdatedOrder_resetsTotal(order, status, t) ==
    Spread(order, [status |-> status, updatedAt |-> t, total |-> 0])

\* orders[orderIndex].status = status; orders[orderIndex].updatedAt = <now>
UpdatedOrder(order, status, t) == Spread(order, [status |-> status, updatedAt |-> t])

\* orders.findIndex(order => order.id === orderId), also orders.find of trackOrder
OrderIndex(ords, orderId) ==
    LET IsIt(order) == order.id = orderId
    IN  FindIndex([i \in 1..Len(ords) |-> IsIt(ords[i])])

PutOrderStatus(orderId, status) ==
    LET orderIndex == OrderIndex(orders, orderId)
    IN  /\ IF ~StatusIsValid(status)
           THEN /\ res' = [op |-> "PUT /api/orders/:id/status", status |-> 400,
                           message |-> "Invalid status"]
                /\ emitted' = <<>>
                /\ orders' = orders
           ELSE IF orderIndex # 0
           THEN LET updated == UpdatedOrder(orders[orderIndex], status, now)
                IN  /\ orders' = [orders EXCEPT ![orderIndex] = updated]
                    /\ emitted' =
                         << Event("orderStatusUpdate", ToRoom(rooms, "customer_room"),
                                  [orderId |-> orderId, status |-> status,
                                   order |-> updated]),
                            Event("orderStatusChanged", sockets,
                                  [orderId |-> orderId, status |-> status,
                                   timestamp |-> now,
                                   connectedUsers |-> Cardinality(DOMAIN connectedUsers)]) >>
                    /\ res' = [op |-> "PUT /api/orders/:id/status", status |-> 200,
                               message |-> "Order status updated successfully",
                               data |-> updated]
           ELSE /\ res' = [op |-> "PUT /api/orders/:id/status", status |-> 404,
                           message |-> "Order not found"]
                /\ emitted' = <<>>
                /\ orders' = orders
        /\ UNCHANGED <<now, menuItems, nextSocket, sockets, rooms, connectedUsers, est>>

----------------------------------------------------------------------------
(* Menu routes.                                                             *)

MenuHit(menu, parsed) ==
    LET IsIt(item) == IdIs(item, parsed)
    IN  FindIndex([i \in 1..Len(menu) |-> IsIt(menu[i])])

PostMenu(body) ==
    LET newItem == Spread(Spread([id |-> now], body),
                          [available |-> TRUE, createdAt |-> now])
    IN  /\ menuItems' = Append(menuItems, newItem)
        /\ emitted' = <<Event("menuUpdated", sockets, Arr(menuItems'))>>
        /\ res' = [op |-> "POST /api/menu", status |-> 201,
                   message |-> "Menu item added successfully", data |-> newItem]
        /\ UNCHANGED <<now, orders, nextSocket, sockets, rooms, connectedUsers, est>>

PutMenu(idParam, body) ==
    LET itemId == parseInt(idParam)
        itemIndex == MenuHit(menuItems, itemId)
    IN  /\ IF itemIndex # 0
           THEN /\ menuItems' = [menuItems EXCEPT ![itemIndex] =
                                    Spread(Spread(@, body), [updatedAt |-> now])]
                /\ emitted' = <<Event("menuUpdated", sockets, Arr(menuItems'))>>
                /\ res' = [op |-> "PUT /api/menu/:id", status |-> 200,
                           message |-> "Menu item updated successfully",
                           data |-> menuItems'[itemIndex]]
           ELSE /\ menuItems' = menuItems
                /\ emitted' = <<>>
                /\ res' = [op |-> "PUT /api/menu/:id", status |-> 404,
                           message |-> "Menu item not found"]
        /\ UNCHANGED <<now, orders, nextSocket, sockets, rooms, connectedUsers, est>>

DeleteMenu(idParam) ==
    LET itemId == parseInt(idParam)
        itemIndex == MenuHit(menuItems, itemId)
    IN  /\ IF itemIndex # 0
           THEN /\ menuItems' = RemoveAt(menuItems, itemIndex)
                /\ emitted' = <<Event("menuUpdated", sockets, Arr(menuItems'))>>
                /\ res' = [op |-> "DELETE /api/menu/:id", status |-> 200,
                           message |-> "Menu item deleted successfully"]
           ELSE /\ menuItems' = menuItems
                /\ emitted' = <<>>
                /\ res' = [op |-> "DELETE /api/menu/:id", status |-> 404,
                           message |-> "Menu item not found"]
        /\ UNCHANGED <<now, orders, nextSocket, sockets, rooms, connectedUsers, est>>

----------------------------------------------------------------------------
(* GET /api/restaurant/stats                                                *)

\* new Date(createdAt).toDateString() === today: the same day of 86 400 000 ms
SameDay(t, u) == (t \div 86400000) = (u \div 86400000)

RECURSIVE Revenue(_)
\* orders.reduce((sum, order) => sum + (order.total || 0), 0)
Revenue(ords) == IF ords = <<>> THEN 0 ELSE Head(ords).total + Revenue(Tail(ords))

IsToday(order) == SameDay(order.createdAt, now)
IsPending(order) == order.status = "pending"
IsDelivered(order) == order.status = "delivered"

GetRestaurantStats ==
    LET todayOrders == SelectSeq(orders, IsToday)
        stats ==
          [totalOrders     |-> Len(orders),
           todayOrders     |-> Len(todayOrders),
           pendingOrders   |-> Len(SelectSeq(orders, IsPending)),
           completedOrders |-> Len(SelectSeq(orders, IsDelivered)),
           totalRevenue    |-> Revenue(orders),
           todayRevenue    |-> Revenue(todayOrders),
           connectedUsers  |->
             [customers   |-> Cardinality({s \in DOMAIN connectedUsers :
                                             connectedUsers[s].userType = "customer"}),
              restaurants |-> Cardinality({s \in DOMAIN connectedUsers :
                                             connectedUsers[s].userType = "restaurant"}),
              total       |-> Cardinality(DOMAIN connectedUsers)]]
    IN  /\ res' = [op |-> "GET /api/restaurant/stats", status |-> 200, data |-> stats]
        /\ emitted' = <<>>
        /\ UNCHANGED <<now, menuItems, orders, nextSocket, sockets, rooms,
                       connectedUsers, est>>

----------------------------------------------------------------------------
(* Socket.IO connections.  Connection ids are never reused: the model       *)
(* numbers them in the order they connect.                                  *)

Connect ==
    /\ sockets' = sockets \cup {nextSocket}
    /\ rooms' = [s \in sockets' |-> IF s \in sockets THEN rooms[s] ELSE {}]
    /\ nextSocket' = nextSocket + 1
    /\ emitted' = <<>>
    /\ res' = NoRes
    /\ UNCHANGED <<now, menuItems, orders, connectedUsers, est>>

\* the previous room is not left
AfterLeave_stay(rms, users, socket) == rms[socket]

\* if (existingUser && existingUser.roomName) socket.leave(existingUser.roomName)
AfterLeave(rms, users, socket) ==
    IF socket \in DOMAIN users THEN rms[socket] \ {users[socket].roomName}
    ELSE rms[socket]

\* socket.on('joinRoom'): data is Undefined or an object with an optional userType
JoinRoom(socket, data) ==
    /\ socket \in sockets
    /\ IF Has(data, "undef") \/ ~Has(data, "userType")
       THEN /\ emitted' = <<Event("error", {socket},
                  [message |->
                     "Failed to join room: Invalid join room data - userType required"])>>
            /\ UNCHANGED <<rooms, connectedUsers>>
       ELSE LET roomName == RoomName(data.userType)
                left == AfterLeave(rooms, connectedUsers, socket)
            IN  /\ rooms' = [rooms EXCEPT ![socket] = left \cup {roomName}]
                /\ connectedUsers' =
                     [s \in (DOMAIN connectedUsers) \cup {socket} |->
                        IF s = socket
                        THEN Spread([userType |-> data.userType],
                               Spread(IF Has(data, "userId")
                                      THEN [userId |-> data.userId] ELSE EmptyObj,
                                      [roomName |-> roomName, joinedAt |-> now]))
                        ELSE connectedUsers[s]]
                /\ emitted' =
                     << Event("connected", {socket},
                              [socketId |-> socket, roomName |-> roomName,
                               timestamp |-> now]),
                        Event("connectionStats", sockets,
                              ConnectionStats(connectedUsers', rooms')) >>
    /\ res' = NoRes
    /\ UNCHANGED <<now, menuItems, orders, nextSocket, sockets, est>>

\* socket.on('trackOrder')
TrackOrder(socket, orderId) ==
    LET idx == OrderIndex(orders, orderId)
    IN  /\ socket \in sockets
        /\ emitted' =
             IF idx # 0
             THEN <<Event("orderTrackingUpdate", {socket},
                          [orderId |-> orderId, status |-> orders[idx].status,
                           estimatedTime |-> orders[idx].estimatedTime,
                           createdAt |-> orders[idx].createdAt])>>
             ELSE <<Event("orderNotFound", {socket}, [orderId |-> orderId])>>
        /\ res' = NoRes
        /\ UNCHANGED <<now, menuItems, orders, nextSocket, sockets, rooms,
                       connectedUsers, est>>

\* socket.on('toggleItemAvailability'): data is Undefined or {itemId, available}
ToggleItemAvailability(socket, data) ==
    /\ socket \in sockets
    /\ IF Has(data, "undef")
       THEN /\ emitted' = <<Event("error", {socket},
                                  [message |-> "Failed to update menu item"])>>
            /\ menuItems' = menuItems
       ELSE LET IsIt(item) == Has(data, "itemId") /\ item.id = data.itemId
                itemIndex == FindIndex([i \in 1..Len(menuItems) |-> IsIt(menuItems[i])])
            IN  IF itemIndex # 0
                THEN /\ menuItems' = [menuItems EXCEPT ![itemIndex] =
                                         Spread(@, [available |-> data.available])]
                     /\ emitted' = <<Event("menuUpdated", sockets, Arr(menuItems'))>>
                ELSE /\ menuItems' = menuItems
                     /\ emitted' = <<>>
    /\ res' = NoRes
    /\ UNCHANGED <<now, orders, nextSocket, sockets, rooms, connectedUsers, est>>

\* The transport closes the connection (it has left every room and the
\* namespace by the time the handler runs), then socket.on('disconnect').
Disconnect(socket) ==
    /\ socket \in sockets
    /\ sockets' = sockets \ {socket}
    /\ rooms' = [s \in sockets' |-> rooms[s]]
    /\ IF socket \in DOMAIN connectedUsers
       THEN /\ connectedUsers' = [s \in (DOMAIN connectedUsers) \ {socket} |->
                                    connectedUsers[s]]
            /\ emitted' = <<Event("connectionStats", sockets',
                                  ConnectionStats(connectedUsers', rooms'))>>
       ELSE /\ connectedUsers' = connectedUsers
            /\ emitted' = <<>>
    /\ res' = NoRes
    /\ UNCHANGED <<now, menuItems, orders, nextSocket, est>>

----------------------------------------------------------------------------
(* A direct call of the estimator on the current catalog.                   *)

Estimate(items) ==
    /\ est' = [called |-> TRUE, items |-> items, menu |-> menuItems,
               result |-> calculateEstimatedTime(menuItems, items)]
    /\ UNCHANGED <<now, menuItems, orders, nextSocket, sockets, rooms,
                   connectedUsers, res, emitted>>

----------------------------------------------------------------------------
(* Requests the environment sends.                                          *)

Line(id, quantity) ==
    [id |-> id, name |-> <<"a">>, price |-> 10, quantity |-> quantity]

\* "<script>a</script>H"
ScriptText == <<"<", "script", ">", "a", "<", "/", "script", ">", "H">>

PlainCustomer == [name |-> <<"a">>]
MarkupCustomer ==
    [name |-> ScriptText, phone |-> <<"<", "a", ">">>,
     address |-> [fullAddress |-> <<" ", "a", " ">>]]

GoodOrder1 == [items |-> Arr(<<Line(1, 2)>>), total |-> 20, customerInfo |-> PlainCustomer]
GoodOrder2 ==
    [items |-> Arr(<<Line(9, 1), Line(3, 3)>>), total |-> 40,
     customerInfo |-> MarkupCustomer]

\* every combination of an items value, a total and a customerInfo
ItemsChoices ==
    { Arr(<<>>), Arr(<<Line(1, 2)>>), Arr(<<Line(3, 3), Null>>),
      Arr(<<[id |-> 1, name |-> <<>>, price |-> 0]>>),
      Arr(<<[id |-> 1, name |-> <<NonString, "<", "a", ">">>, price |-> 10,
             quantity |-> 1]>>),
      Arr(<<[id |-> 2, name |-> <<" ", "<", "a", ">", " ">>, price |-> 10,
             quantity |-> 1]>>),
      NotArray }
\* a name that is an array holding "<a>", and names that are "<>" and " "
CustomerChoices ==
    { PlainCustomer, MarkupCustomer, [name |-> <<>>], [phone |-> <<"a">>],
      [name |-> <<NonString, "<", "a", ">">>],
      [name |-> <<"<", ">">>], [name |-> <<" ">>] }
AllOrderBodies ==
    { Spread(Spread(i, t), c) :
        i \in {EmptyObj} \cup {[items |-> x] : x \in ItemsChoices},
        t \in {EmptyObj, [total |-> 0], [total |-> 20]},
        c \in {EmptyObj} \cup {[customerInfo |-> x] : x \in CustomerChoices} }

OrderIdsUpTo(t) == {OrderId(k) : k \in Epoch..t} \cup {<<"ORD">>}
StatusInputs == validStatuses \cup {"shipped"}

\* req.params.id of the menu routes: one or two characters
ParamChars == {"1", "0", "a"}
IdParams == {<<c>> : c \in ParamChars} \cup {<<c, d>> : c, d \in ParamChars}

JoinInputs ==
    {Undefined, [userId |-> "u1"]}
      \cup {[userType |-> t, userId |-> "u1"] : t \in {"customer", "restaurant", "admin"}}

\* A workload: the inputs the environment draws from and how many orders,
\* connections and added menu items it goes up to.
Step(W) ==
    \/ Tick
    \/ \E body \in W.orderBodies : Len(orders) < W.maxOrders /\ PostOrder(body)
    \/ \E id \in OrderIdsUpTo(now), st \in W.statusInputs : PutOrderStatus(id, st)
    \/ \E body \in W.menuBodies : Len(menuItems) < Len(SampleMenu) + W.maxAdded
                                   /\ PostMenu(body)
    \/ \E id \in W.idParams, body \in W.patches : PutMenu(id, body)
    \/ \E id \in W.idParams : DeleteMenu(id)
    \/ nextSocket <= W.maxSockets /\ Connect
    \/ \E s \in sockets, data \in W.joinInputs : JoinRoom(s, data)
    \/ \E s \in sockets, id \in W.trackIds : TrackOrder(s, id)
    \/ \E s \in sockets, data \in W.toggles : ToggleItemAvailability(s, data)
    \/ \E s \in sockets : Disconnect(s)

\* Order lifecycle: several orders, every status, one client, a quiet catalog.
OrderWorkload ==
    [orderBodies |-> {GoodOrder1, EmptyObj, [items |-> NotArray]},
     maxOrders |-> MaxOrders,
     statusInputs |-> StatusInputs,
     menuBodies |-> {[name |-> "Lassi"]}, maxAdded |-> 1,
     idParams |-> {<<"9">>}, patches |-> {[price |-> 50]},
     maxSockets |-> 1, joinInputs |-> {[userType |-> "customer", userId |-> "u1"]},
     trackIds |-> {OrderId(Epoch)},
     toggles |-> {[itemId |-> 9, available |-> FALSE]}]

\* Order intake: every request body, at most one stored order.
IntakeWorkload ==
    [orderBodies |-> AllOrderBodies,
     maxOrders |-> MaxIntake,
     statusInputs |-> {"preparing", "shipped"},
     menuBodies |-> {[name |-> "Lassi"]}, maxAdded |-> 1,
     idParams |-> {<<"9">>}, patches |-> {[price |-> 50]},
     maxSockets |-> 1, joinInputs |-> {[userType |-> "restaurant", userId |-> "u1"]},
     trackIds |-> {OrderId(Epoch)},
     toggles |-> {[itemId |-> 9, available |-> FALSE]}]

\* Realtime: several clients joining, re-joining and leaving, one order.
RealtimeWorkload ==
    [orderBodies |-> {GoodOrder1, EmptyObj},
     maxOrders |-> 1,
     statusInputs |-> {"preparing", "shipped"},
     menuBodies |-> {[name |-> "Lassi"]}, maxAdded |-> 1,
     idParams |-> {<<"9">>}, patches |-> {[price |-> 50]},
     maxSockets |-> MaxSockets, joinInputs |-> JoinInputs,
     trackIds |-> {OrderId(Epoch)},
     toggles |-> {[itemId |-> 1, available |-> FALSE]}]

\* Catalog: every id parameter, patches, added items, one order, one client.
CatalogWorkload ==
    [orderBodies |-> {GoodOrder1, EmptyObj},
     maxOrders |-> 1,
     statusInputs |-> {"shipped"},
     menuBodies |-> {[name |-> "Lassi", price |-> 30]}, maxAdded |-> MaxAdded,
     idParams |-> IdParams,
     patches |-> {[preparationTime |-> 0]},
     maxSockets |-> 1, joinInputs |-> {[userType |-> "customer", userId |-> "u1"]},
     trackIds |-> {OrderId(Epoch)},
     toggles |-> {[itemId |-> 1, available |-> FALSE], [itemId |-> 9, available |-> TRUE],
                  Undefined}]

\* Ledger: orders that stay in the store while their status and the catalog
\* items their lines refer to change.
LedgerWorkload ==
    [orderBodies |-> {GoodOrder1},
     maxOrders |-> MaxOrders,
     statusInputs |-> {"ready"},
     menuBodies |-> {[name |-> "Lassi"]}, maxAdded |-> 1,
     idParams |-> {<<"1">>}, patches |-> {[price |-> 50, name |-> "Jamun"]},
     maxSockets |-> 1, joinInputs |-> {[userType |-> "customer", userId |-> "u1"]},
     trackIds |-> {OrderId(Epoch)},
     toggles |-> {[itemId |-> 1, available |-> FALSE]}]

\* Identity: new menu items and patches that carry an id field of their own.
IdentityWorkload ==
    [orderBodies |-> {EmptyObj},
     maxOrders |-> 1,
     statusInputs |-> {"shipped"},
     menuBodies |-> {[name |-> "Lassi"], [id |-> 1, name |-> "Lassi"]},
     maxAdded |-> MaxAdded,
     idParams |-> {<<"1">>},
     patches |-> {[id |-> 2]},
     maxSockets |-> 1, joinInputs |-> {[userType |-> "restaurant", userId |-> "u1"]},
     trackIds |-> {OrderId(Epoch)},
     toggles |-> {[itemId |-> 1, available |-> FALSE]}]

Next == Step(OrderWorkload)
Spec == Init /\ [][Next]_vars

NextIntake == Step(IntakeWorkload)
SpecIntake == Init /\ [][NextIntake]_vars

NextRealtime == Step(RealtimeWorkload)
SpecRealtime == Init /\ [][NextRealtime]_vars

NextCatalog == Step(CatalogWorkload)
SpecCatalog == Init /\ [][NextCatalog]_vars

NextIdentity == Step(IdentityWorkload)
SpecIdentity == Init /\ [][NextIdentity]_vars

NextLedger == Step(LedgerWorkload)
SpecLedger == Init /\ [][NextLedger]_vars

\* The realtime requests together with reads of the restaurant statistics.
NextStats ==
    \/ Step(RealtimeWorkload)
    \/ GetRestaurantStats
SpecStats == Init /\ [][NextStats]_vars

----------------------------------------------------------------------------
(* The estimator as a function: the line list is drawn at the start, the    *)
(* catalog routes change the catalog, Estimate applies the function.        *)

EstLines ==
    {Line(i, q) : i \in {1, 2, 3, 9, Epoch}, q \in {1, 2, 5}}
      \cup {[name |-> <<"a">>, price |-> 10, quantity |-> 3]}
EstInputs ==
    {Undefined, NotArray, Arr(<<>>)}
      \cup {Arr(<<l>>) : l \in EstLines}
      \cup {Arr(<<Line(i, q), Line(j, 5)>>) : i \in {1, 3}, j \in {3, 9}, q \in {1, 5}}

InitEst ==
    /\ now = Epoch
    /\ menuItems = SampleMenu
    /\ orders = <<>>
    /\ nextSocket = 1
    /\ sockets = {}
    /\ rooms = EmptyObj
    /\ connectedUsers = EmptyObj
    /\ res = NoRes
    /\ emitted = <<>>
    /\ \E items \in EstInputs : est = [called |-> FALSE, items |-> items]

NextEst ==
    \/ \E body \in {[name |-> "Lassi", price |-> 30]} :
           Len(menuItems) < Len(SampleMenu) + MaxAdded /\ PostMenu(body)
    \/ \E id \in {<<"1">>},
          body \in {[preparationTime |-> 0], [preparationTime |-> 7]} : PutMenu(id, body)
    \/ \E id \in {<<"3">>} : DeleteMenu(id)
    \/ \E body \in {GoodOrder1, GoodOrder2} : Len(orders) < 1 /\ PostOrder(body)
    \/ Estimate(est.items)

SpecEst == InitEst /\ [][NextEst]_vars

----------------------------------------------------------------------------
(* Properties.                                                              *)

Created == res.op = "POST /api/orders" /\ res.status = 201
StatusChanged == res.op = "PUT /api/orders/:id/status" /\ res.status = 200

\* The five recognized order statuses, as the specification lists them.
RecognizedStatuses == {"pending", "preparing", "ready", "delivered", "cancelled"}

AllOrderIds == {OrderId(k) : k \in Epoch..(Epoch + MaxTicks)} \cup {<<"ORD">>}

EventsNamed(em, name) == {i \in 1..Len(em) : em[i].event = name}

\* C1: the order a successful POST /api/orders returns has an orderNumber
\* strictly greater than that of every order created before it (the orders
\* behind it in the newest-first list).
C1_OrderNumberIncreases ==
    Created =>
        /\ orders[1] = res.data
        /\ \A i \in 2..Len(orders) : res.data.orderNumber > orders[i].orderNumber

C1_Witness ==
    /\ Created
    /\ Len(orders) = MaxOrders
    /\ res.data.orderNumber = MaxOrders

\* C2: no two stored orders have the same id.
C2_UniqueOrderIds ==
    \A i, j \in 1..Len(orders) : i # j => orders[i].id # orders[j].id

\* C4: PUT /api/orders/:id/status with a status outside the five recognized
\* values answers 400 whether or not the id exists, and with a recognized
\* status and an unknown id answers 404; either way the order list is as it
\* was and no orderStatusUpdate is emitted.
C4_Rejected(id, st) ==
    /\ st \notin RecognizedStatuses => res'.status = 400
    /\ (st \in RecognizedStatuses /\ \A i \in 1..Len(orders) : orders[i].id # id)
          => res'.status = 404
    /\ res'.status \in {400, 404} =>
          /\ orders' = orders
          /\ EventsNamed(emitted', "orderStatusUpdate") = {}
          /\ st \notin RecognizedStatuses \/ \A i \in 1..Len(orders) : orders[i].id # id

C4_BadStatusChangesNothing ==
    [][res'.op = "PUT /api/orders/:id/status" =>
          \A id \in AllOrderIds, st \in StatusInputs :
              PutOrderStatus(id, st) => C4_Rejected(id, st)]_vars

C4_Witness ==
    /\ res.op = "PUT /api/orders/:id/status"
    /\ res.status = 400
    /\ Len(orders) = MaxOrders
    /\ \E i \in 1..Len(orders) : orders[i].status = "delivered"

\* C5: after a status change to a recognized status s of a stored order id, a
\* read of that order (the first order with that id, as trackOrder finds it)
\* has status s, and its updatedAt is not earlier than before the call.
C5_Applied(id, s) ==
    LET before == orders[OrderIndex(orders, id)]
        after  == orders'[OrderIndex(orders', id)]
    IN  /\ res'.status = 200
        /\ OrderIndex(orders', id) # 0
        /\ after.status = s
        /\ res'.data = after
        /\ Has(after, "updatedAt")
        /\ Has(before, "updatedAt") => after.updatedAt >= before.updatedAt
        /\ after.updatedAt >= after.createdAt

C5_StatusChangeIsRead ==
    [][res'.op = "PUT /api/orders/:id/status" =>
          \A id \in AllOrderIds, s \in RecognizedStatuses :
              (PutOrderStatus(id, s) /\ OrderIndex(orders, id) # 0) => C5_Applied(id, s)]_vars

C5_Witness ==
    /\ StatusChanged
    /\ res.data.status = "preparing"
    /\ res.data.updatedAt > res.data.createdAt
    /\ \E i \in 1..Len(orders) : orders[i].id = res.data.id /\ orders[i].status = "preparing"

\* C3: a POST /api/orders body without customerInfo, or whose customerInfo
\* has no name or an empty one, is answered 400 with a violation about the
\* customer name; the order list is unchanged and nothing is emitted.
NameMissing(body) ==
    \/ ~Has(body, "customerInfo")
    \/ ~Has(body.customerInfo, "name")
    \/ body.customerInfo.name = <<>>

C3_Rejected ==
    /\ res'.status = 400
    /\ \E i \in 1..Len(res'.errors) : res'.errors[i].msg = "Customer name is required"
    /\ orders' = orders
    /\ EventsNamed(emitted', "newOrder") = {}
    /\ EventsNamed(emitted', "orderConfirmed") = {}

C3_MissingNameRejected ==
    [][res'.op = "POST /api/orders" =>
          \A body \in AllOrderBodies :
              (NameMissing(body) /\ PostOrder(body)) => C3_Rejected]_vars

\* C6: a successful status change emits one orderStatusUpdate, delivered to
\* exactly the connections that are joined as customer at that moment.
JoinedAs(users, role) == {s \in DOMAIN users : users[s].userType = role}

C6_StatusUpdateToCustomers ==
    StatusChanged =>
        /\ EventsNamed(emitted, "orderStatusUpdate") = {1}
        /\ emitted[1].to = JoinedAs(connectedUsers, "customer") \cap sockets
        /\ emitted[1].payload.status = res.data.status

C6_Witness ==
    /\ StatusChanged
    /\ emitted[1].to # {}
    /\ JoinedAs(connectedUsers, "restaurant") # {}

\* C7: every successful joinRoom, every disconnect of a joined connection and
\* every change of the presence registry comes with a connectionStats event
\* to all connections whose customers, restaurants and total are the counts
\* of the registry as it is after the change.
StatsSeen(em, socks, users) ==
    \E i \in EventsNamed(em, "connectionStats") :
        /\ em[i].to = socks
        /\ em[i].payload.customers = Cardinality(JoinedAs(users, "customer"))
        /\ em[i].payload.restaurants = Cardinality(JoinedAs(users, "restaurant"))
        /\ em[i].payload.total = Cardinality(DOMAIN users)

C7_StatsFollowRegistry ==
    [][/\ \A s \in 1..MaxSockets, d \in JoinInputs :
             (JoinRoom(s, d) /\ Has(d, "userType"))
                => StatsSeen(emitted', sockets', connectedUsers')
       /\ \A s \in 1..MaxSockets :
             (Disconnect(s) /\ s \in DOMAIN connectedUsers)
                => StatsSeen(emitted', sockets', connectedUsers')
       /\ connectedUsers' # connectedUsers
             => StatsSeen(emitted', sockets', connectedUsers')]_vars

C7_Witness ==
    /\ \E i \in EventsNamed(emitted, "connectionStats") :
          /\ emitted[i].payload.customers = 1
          /\ emitted[i].payload.restaurants = 1
          /\ emitted[i].payload.total = 2
    /\ Cardinality(DOMAIN connectedUsers) = 2

\* C8: DELETE /api/menu/:id with an id that no catalog item has (the text of
\* the path parameter is the decimal text of no item's id) answers 404,
\* leaves the catalog unchanged and emits no menuUpdated.
DigitChar(d) == CHOOSE c \in Digits : DigitVal(c) = d

RECURSIVE DecimalText(_)
DecimalText(n) ==
    IF n < 10 THEN <<DigitChar(n)>>
    ELSE DecimalText(n \div 10) \o <<DigitChar(n % 10)>>

C8_UnknownIdNotFound ==
    [][res'.op = "DELETE /api/menu/:id" =>
          \A id \in IdParams :
              (DeleteMenu(id) /\ \A i \in 1..Len(menuItems) : DecimalText(menuItems[i].id) # id)
                 => /\ res'.status = 404
                    /\ menuItems' = menuItems
                    /\ EventsNamed(emitted', "menuUpdated") = {}]_vars

\* C9: the estimator returns the default 30 for a missing line list and for
\* an empty one.
C9_EmptyListDefault ==
    (est.called /\ (Has(est.items, "undef") \/ (est.items.array /\ est.items.elems = <<>>)))
       => est.result = 30

\* C10: for a list of lines with positive quantities and any catalog the
\* estimate is 15 + ceil(sum of quantity x preparation time / 2) clamped into
\* [15, 60], the preparation time of a line being that of the first catalog
\* item with the line's id, or 10 if there is none.
IsLineList(items) == ~Has(items, "undef") /\ items.array

ClaimPrepTime(menu, line, zeroCountsAsNone) ==
    LET hits == {i \in 1..Len(menu) : Has(line, "id") /\ menu[i].id = line.id}
        m == CHOOSE i \in hits : \A j \in hits : i <= j
    IN  IF hits = {} THEN 10
        ELSE IF ~Has(menu[m], "preparationTime") THEN 10
        ELSE IF zeroCountsAsNone /\ menu[m].preparationTime = 0 THEN 10
        ELSE menu[m].preparationTime

RECURSIVE ClaimWork(_, _, _)
ClaimWork(menu, elems, zeroCountsAsNone) ==
    IF elems = <<>> THEN 0
    ELSE Head(elems).quantity * ClaimPrepTime(menu, Head(elems), zeroCountsAsNone)
         + ClaimWork(menu, Tail(elems), zeroCountsAsNone)

\* the least integer that is at least n / 2, n >= 0
ClaimCeilHalf(n) == CHOOSE c \in 0..n : 2 * c >= n /\ 2 * (c - 1) < n

ClaimEstimate(menu, elems, zeroCountsAsNone) ==
    LET raw == 15 + ClaimCeilHalf(ClaimWork(menu, elems, zeroCountsAsNone))
    IN  IF raw < 15 THEN 15 ELSE IF raw > 60 THEN 60 ELSE raw

C10_Holds(zeroCountsAsNone) ==
    /\ (est.called /\ IsLineList(est.items)) =>
          /\ est.result = ClaimEstimate(est.menu, est.items.elems, zeroCountsAsNone)
          /\ est.result >= 15 /\ est.result <= 60
    /\ Created =>
          res.data.estimatedTime = ClaimEstimate(menuItems, res.data.items, zeroCountsAsNone)
    /\ \A i \in 1..Len(orders) :
          orders[i].estimatedTime >= 15 /\ orders[i].estimatedTime <= 60

----------------------------------------------------------------------------
(* Catalog broadcasts.                                                      *)

\* one menuUpdated event, to every open connection, carrying the catalog as
\* the step leaves it
C11_Broadcast ==
    /\ Cardinality(EventsNamed(emitted', "menuUpdated")) = 1
    /\ \A i \in EventsNamed(emitted', "menuUpdated") :
          /\ emitted'[i].to = sockets'
          /\ emitted'[i].payload = Arr(menuItems')

C11_Mutated ==
    \/ res'.op = "POST /api/menu" /\ res'.status = 201
    \/ res'.op = "PUT /api/menu/:id" /\ res'.status = 200
    \/ res'.op = "DELETE /api/menu/:id" /\ res'.status = 200
    \/ \E s \in sockets, d \in CatalogWorkload.toggles :
          /\ ToggleItemAvailability(s, d)
          /\ Has(d, "itemId")
          /\ \E i \in 1..Len(menuItems) : menuItems[i].id = d.itemId
    \/ menuItems' # menuItems

\* C11: every successful catalog mutation (POST, PUT, DELETE /api/menu, a
\* toggleItemAvailability on an existing item, and any step that changes the
\* catalog) emits one menuUpdated to all connections carrying the catalog as
\* it is after the step, and a menuUpdated is never emitted with anything
\* else; so the most recent menuUpdated always carries the current catalog.
C11_MenuUpdatedCarriesCatalog ==
    [][/\ C11_Mutated => C11_Broadcast
       /\ \A i \in EventsNamed(emitted', "menuUpdated") :
             emitted'[i].payload = Arr(menuItems')]_vars

C11_Witness ==
    /\ res = NoRes
    /\ \E i \in EventsNamed(emitted, "menuUpdated") :
          emitted[i].to # {} /\ emitted[i].payload = Arr(menuItems)
    /\ \E k \in 1..Len(menuItems) : ~menuItems[k].available
    /\ Len(menuItems) > Len(SampleMenu)

----------------------------------------------------------------------------
(* Order broadcasts.                                                        *)

Members(room) == {s \in sockets : room \in rooms[s]}

----------------------------------------------------------------------------
(* Stored text.                                                             *)

\* the caller-supplied text fields of a stored order that the server sanitizes
StoredTexts(order) ==
    {order.customerInfo.name}
      \cup (IF Has(order.customerInfo, "phone") THEN {order.customerInfo.phone} ELSE {})
      \cup (IF Has(order.customerInfo.address, "fullAddress")
            THEN {order.customerInfo.address.fullAddress} ELSE {})
      \cup {order.items[k].name : k \in 1..Len(order.items)}

HoldsAngle(text) == \E k \in 1..Len(text) : text[k] \in {"<", ">"}

Untrimmed(text) == text # <<>> /\ (text[1] = " " \/ text[Len(text)] = " ")

\* C13: in every stored order the customer's name, phone and full address and
\* every line item's name hold no angle bracket and no surrounding blank (they
\* are the sanitized form of what the caller sent).
C13_StoredTextSanitized ==
    \A i \in 1..Len(orders) :
        \A text \in StoredTexts(orders[i]) : ~HoldsAngle(text) /\ ~Untrimmed(text)

----------------------------------------------------------------------------
(* Presence.                                                                *)

\* C14: every connection with a presence entry is open and is a member of
\* exactly one broadcast room, the roomName of its entry (also right after a
\* re-join with another role); a connection that is closed has neither an
\* entry nor a room.
C14_OneRoomPerConnection ==
    /\ DOMAIN connectedUsers \subseteq sockets
    /\ DOMAIN rooms = sockets
    /\ \A s \in DOMAIN connectedUsers : rooms[s] = {connectedUsers[s].roomName}

C14_Witness ==
    /\ Cardinality(DOMAIN connectedUsers) = MaxSockets
    /\ \E s, t \in DOMAIN connectedUsers :
          /\ rooms[s] = {"customer_room"}
          /\ rooms[t] = {"restaurant_room"}
          /\ connectedUsers[s].joinedAt > connectedUsers[t].joinedAt
    /\ EventsNamed(emitted, "connected") # {}

----------------------------------------------------------------------------
(* The order store as a ledger.                                             *)

\* the same order, but for its status and updatedAt
C15_Kept(before, after) ==
    /\ \A f \in DOMAIN before \ {"status", "updatedAt"} :
          f \in DOMAIN after /\ after[f] = before[f]
    /\ DOMAIN after \ DOMAIN before \subseteq {"updatedAt"}

\* C15: no step removes a stored order or changes any of its fields other
\* than status and updatedAt, whatever the step is (a status change, a menu
\* add, update, delete or availability toggle, a join, a disconnect, a
\* trackOrder, the creation of another order): the orders of the list before
\* the step are the last orders of the list after it, in the same order.
C15_StoredOrdersKept ==
    [][/\ Len(orders') >= Len(orders)
       /\ \A i \in 1..Len(orders) :
             C15_Kept(orders[i], orders'[i + Len(orders') - Len(orders)])]_vars

C15_Witness ==
    /\ Len(orders) = MaxOrders
    /\ \E i \in 1..Len(orders) :
          /\ orders[i].status = "ready"
          /\ orders[i].updatedAt > orders[i].createdAt
          /\ orders[i].items[1].id = 1
          /\ orders[i].items[1].price = 10
          /\ orders[i].estimatedTime = 30
    /\ \A k \in 1..Len(menuItems) : menuItems[k].id # 1
    /\ Len(menuItems) > Len(SampleMenu) - 1

\* C16: the order list is in newest-first insertion order: of two orders the
\* one nearer the front has the strictly larger orderNumber and a createdAt
\* that is not earlier, and the order at (0-based) position i of a list of n
\* orders has orderNumber n - i; a creation puts the new order at the front.
C16_NewestFirst ==
    /\ \A i, j \in 1..Len(orders) :
          i < j => /\ orders[i].orderNumber > orders[j].orderNumber
                   /\ orders[i].createdAt >= orders[j].createdAt
    /\ \A i \in 1..Len(orders) : orders[i].orderNumber = Len(orders) - (i - 1)
    /\ Created => orders[1] = res.data

C16_Witness ==
    /\ Len(orders) = MaxOrders
    /\ orders[1].createdAt > orders[Len(orders)].createdAt
    /\ orders[Len(orders)].status = "cancelled"

----------------------------------------------------------------------------
(* Identity of menu items.                                                  *)

\* C17: all menu items have pairwise distinct ids, and no step changes the id
\* of an item that stays in the catalog (a POST appends, a DELETE removes one
\* item, every other step keeps each position's id).
C17_MenuIdsUniqueAndFixed ==
    [][/\ \A i, j \in 1..Len(menuItems') : i # j => menuItems'[i].id # menuItems'[j].id
       /\ Len(menuItems') >= Len(menuItems) =>
             \A i \in 1..Len(menuItems) : menuItems'[i].id = menuItems[i].id]_vars

----------------------------------------------------------------------------
(* The customer's name.                                                     *)

\* C18: every stored order has a customerInfo.name that is not empty.
C18_StoredNameNonEmpty ==
    \A i \in 1..Len(orders) :
        /\ Has(orders[i].customerInfo, "name")
        /\ orders[i].customerInfo.name # <<>>

----------------------------------------------------------------------------
(* Room topology.                                                           *)

\* C19: every presence entry has the role customer or restaurant and the
\* roomName customer_room or restaurant_room, and no connection is a member
\* of any other room.
C19_TwoRoomsOnly ==
    /\ \A s \in DOMAIN connectedUsers :
          /\ connectedUsers[s].userType \in {"customer", "restaurant"}
          /\ connectedUsers[s].roomName \in {"customer_room", "restaurant_room"}
    /\ \A s \in DOMAIN rooms : rooms[s] \subseteq {"customer_room", "restaurant_room"}

----------------------------------------------------------------------------
(* Rejected joins.                                                          *)

JoinError == [message |-> "Failed to join room: Invalid join room data - userType required"]

BadJoinInputs == {d \in JoinInputs : Has(d, "undef") \/ ~Has(d, "userType")}

\* C20: a joinRoom with no payload or no userType emits one error event, to
\* the requesting connection only; the presence registry and every room's
\* membership are as before, no connectionStats is emitted, the connection
\* stays open, and a joinRoom with a userType is possible for it afterwards.
C20_BadJoinChangesNothing ==
    [][\A s \in 1..MaxSockets, d \in BadJoinInputs :
          JoinRoom(s, d) =>
             /\ Len(emitted') = 1
             /\ emitted'[1].event = "error"
             /\ emitted'[1].to = {s}
             /\ EventsNamed(emitted', "connectionStats") = {}
             /\ connectedUsers' = connectedUsers
             /\ rooms' = rooms
             /\ sockets' = sockets
             /\ s \in sockets'
             /\ (ENABLED JoinRoom(s, [userType |-> "customer", userId |-> "u1"]))']_vars

C20_Witness ==
    /\ Len(emitted) = 1
    /\ emitted[1].event = "error"
    /\ emitted[1].payload = JoinError
    /\ Cardinality(sockets) = MaxSockets
    /\ \E s \in DOMAIN connectedUsers :
          emitted[1].to = {s} /\ rooms[s] = {"restaurant_room"}

----------------------------------------------------------------------------
(* Mutation before broadcast and response.                                  *)

C21_OrderCreated ==
    \/ res'.op = "POST /api/orders" /\ res'.status = 201
    \/ EventsNamed(emitted', "newOrder") # {}
    \/ EventsNamed(emitted', "orderConfirmed") # {}

\* the new order is at the front of the list that a read finds
C21_OrderVisible ==
    /\ Len(orders') = Len(orders) + 1
    /\ res'.status = 201
    /\ orders'[1] = res'.data
    /\ \A i \in EventsNamed(emitted', "newOrder") : emitted'[i].payload = orders'[1]
    /\ \A i \in EventsNamed(emitted', "orderConfirmed") :
          emitted'[i].payload.orderId = orders'[1].id

C21_StatusChanged ==
    \/ res'.op = "PUT /api/orders/:id/status" /\ res'.status = 200
    \/ EventsNamed(emitted', "orderStatusUpdate") # {}

\* the order that a read by id finds has the status that is announced
C21_StatusVisible ==
    /\ res'.status = 200
    /\ \A i \in EventsNamed(emitted', "orderStatusUpdate") :
          LET k == OrderIndex(orders', emitted'[i].payload.orderId)
          IN  /\ k # 0
              /\ orders'[k].status = emitted'[i].payload.status
              /\ orders'[k] = emitted'[i].payload.order
              /\ orders'[k] = res'.data

C21_MenuChanged ==
    \/ res'.op = "POST /api/menu" /\ res'.status = 201
    \/ res'.op \in {"PUT /api/menu/:id", "DELETE /api/menu/:id"} /\ res'.status = 200
    \/ EventsNamed(emitted', "menuUpdated") # {}

\* the catalog that a read finds has the change
C21_MenuVisible ==
    /\ \A i \in EventsNamed(emitted', "menuUpdated") :
          emitted'[i].payload = Arr(menuItems')
    /\ res'.op = "POST /api/menu" => menuItems' = Append(menuItems, res'.data)
    /\ res'.op = "PUT /api/menu/:id" =>
          /\ Len(menuItems') = Len(menuItems)
          /\ \E k \in 1..Len(menuItems') :
                menuItems'[k] = res'.data /\ menuItems'[k].updatedAt = now'
    /\ res'.op = "DELETE /api/menu/:id" => Len(menuItems') = Len(menuItems) - 1
    /\ \A s \in sockets, d \in LedgerWorkload.toggles :
          ToggleItemAvailability(s, d) =>
             \E k \in 1..Len(menuItems') :
                menuItems'[k].id = d.itemId /\ menuItems'[k].available = d.available

\* C21: in every handler run that emits newOrder, orderConfirmed,
\* orderStatusUpdate or menuUpdated, or answers 2xx to an order creation, a
\* status change or a catalog mutation, the store as the run leaves it (what
\* any read finds from then on) shows the mutation: the new order is in the
\* list, the order has the new status, the catalog has the change.
C21_MutationVisible ==
    [][now' = now =>
          /\ C21_OrderCreated => C21_OrderVisible
          /\ C21_StatusChanged => C21_StatusVisible
          /\ C21_MenuChanged => C21_MenuVisible]_vars

C21_Witness ==
    /\ res.op = "DELETE /api/menu/:id"
    /\ res.status = 200
    /\ \E i \in EventsNamed(emitted, "menuUpdated") :
          emitted[i].to # {} /\ emitted[i].payload = Arr(menuItems)
    /\ Len(orders) = MaxOrders
    /\ \E i \in 1..Len(orders) : orders[i].status = "ready"

----------------------------------------------------------------------------
(* Status transitions.                                                      *)

C22_Accepted(id, s) ==
    LET k == OrderIndex(orders, id)
    IN  /\ res'.status = 200
        /\ Len(orders') = Len(orders)
        /\ orders'[k].status = s
        /\ \E i \in EventsNamed(emitted', "orderStatusUpdate") :
              /\ emitted'[i].payload.orderId = id
              /\ emitted'[i].payload.status = s
              /\ emitted'[i].payload.order = orders'[k]

\* C22: a status change of a stored order to any of the five recognized
\* statuses is accepted, applied and broadcast whatever status the order has
\* (also delivered to pending and cancelled to preparing); an order enters
\* the list as pending and never holds a status outside the five.
C22_AnyTransitionAccepted ==
    [][/\ \A i \in 1..Len(orders') : orders'[i].status \in RecognizedStatuses
       /\ Len(orders') > Len(orders) => orders'[1].status = "pending"
       /\ res'.op = "PUT /api/orders/:id/status" =>
             \A id \in AllOrderIds, s \in RecognizedStatuses :
                 (PutOrderStatus(id, s) /\ OrderIndex(orders, id) # 0)
                    => C22_Accepted(id, s)]_vars

C22_Witness ==
    /\ StatusChanged
    /\ res.data.status = "pending"
    /\ Has(res.data, "updatedAt")
    /\ \E i \in 1..Len(orders) : orders[i].status = "cancelled"
    /\ \E i \in EventsNamed(emitted, "orderStatusUpdate") :
          emitted[i].payload.status = "pending"

----------------------------------------------------------------------------
(* Connection statistics.                                                   *)

\* C23: in every connectionStats event and in the connectedUsers part of
\* every GET /api/restaurant/stats response, total = customers + restaurants.
C23_TotalIsSum ==
    /\ \A i \in EventsNamed(emitted, "connectionStats") :
          emitted[i].payload.total
             = emitted[i].payload.customers + emitted[i].payload.restaurants
    /\ res.op = "GET /api/restaurant/stats" =>
          res.data.connectedUsers.total
             = res.data.connectedUsers.customers + res.data.connectedUsers.restaurants

====
